---------------------------- MODULE Spec2Model ----------------------------
(***************************************************************************)
(* Model of src/main.py: PowerPointTemplate.apply_data and the three       *)
(* section resolvers it drives (_replace_text_placeholders,                *)
(* _update_tables, _replace_images / _replace_single_image).               *)
(*                                                                         *)
(* Strings are sequences of one-character strings, so that str.replace,    *)
(* the "in" test, int() and str.isdigit() are computed and not assumed.    *)
(* A mapping (a Python dict) is the sequence of its items in iteration     *)
(* order.  Floats are IEEE binary64 values with an explicit 53 bit         *)
(* significand.                                                            *)
(***************************************************************************)
EXTENDS Integers, Sequences, FiniteSets, TLC

VARIABLES
    template,   \* the slides of the file at template_path, as loaded; never written
    slides,     \* self.prs.slides: sequence of [titled, title, shapes], edited in place
    slide_map,  \* self.slide_map: title -> position of the slide
    files,      \* the file system seen by os.path.exists / Image.open
    data_dict,  \* the payload given to apply_data: [tag, items], items in iteration order
    pos,        \* number of payload entries apply_data has consumed
    pc,         \* "apply" while apply_data iterates, "done" after it returned
    next,       \* identity given to the next shape object that is created
    warnings,   \* number of logger.warning calls
    errors,     \* number of logger.exception calls
    raised,     \* TRUE iff apply_data left with an exception
    events      \* history: what the resolvers did, in order

vars == <<template, slides, slide_map, files, data_dict, pos, pc, next, warnings, errors, raised, events>>

---------------------------------------------------------------------------
(* Strings                                                                 *)

Digits == <<"0", "1", "2", "3", "4", "5", "6", "7", "8", "9">>

IsDigitChar(ch) == \E i \in 1..Len(Digits) : Digits[i] = ch

DigitValue(ch) == (CHOOSE i \in 1..Len(Digits) : Digits[i] = ch) - 1

\* str.isdigit(): non-empty and every character a digit
IsDigit(s) == Len(s) > 0 /\ \A i \in 1..Len(s) : IsDigitChar(s[i])

RECURSIVE DigitsValue(_)
DigitsValue(s) ==
    IF s = <<>> THEN 0
    ELSE 10 * DigitsValue(SubSeq(s, 1, Len(s) - 1)) + DigitValue(s[Len(s)])

\* int(s) succeeds: an optional sign followed by at least one digit
IntParses(s) ==
    \/ IsDigit(s)
    \/ Len(s) > 1 /\ s[1] \in {"-", "+"} /\ IsDigit(Tail(s))

\* int(s) where IntParses(s)
IntValue(s) ==
    IF IsDigit(s) THEN DigitsValue(s)
    ELSE IF s[1] = "-" THEN 0 - DigitsValue(Tail(s))
    ELSE DigitsValue(Tail(s))

RECURSIVE NatToStr(_)
NatToStr(n) ==
    IF n < 10 THEN <<Digits[n + 1]>>
    ELSE NatToStr(n \div 10) \o <<Digits[(n % 10) + 1]>>

\* str(value) for a payload scalar: a string is itself, an integer its decimal form
Str(value) ==
    IF value.t = "str" THEN value.s
    ELSE IF value.n < 0 THEN <<"-">> \o NatToStr(0 - value.n)
    ELSE NatToStr(value.n)

StartsWith(s, p) == Len(p) <= Len(s) /\ SubSeq(s, 1, Len(p)) = p

\* p in s
Contains(s, p) == \E i \in 1..(Len(s) - Len(p) + 1) : SubSeq(s, i, i + Len(p) - 1) = p

\* s.replace(old, new) for a non-empty old: all non-overlapping occurrences, left to right
RECURSIVE StrReplace(_, _, _)
StrReplace(s, old, new) ==
    IF Len(s) < Len(old) THEN s
    ELSE IF StartsWith(s, old)
         THEN new \o StrReplace(SubSeq(s, Len(old) + 1, Len(s)), old, new)
         ELSE <<Head(s)>> \o StrReplace(Tail(s), old, new)

\* "{{" + key + "}}"
Placeholder(key) == <<"{", "{">> \o key \o <<"}", "}">>

---------------------------------------------------------------------------
(* Payload sections.  A section is absent, a mapping (its items in         *)
(* iteration order) or some other JSON value, on which .items() fails.     *)

Absent == [tag |-> "absent", items |-> <<>>]
Scalar == [tag |-> "scalar", items |-> <<>>]
Mapping(items) == [tag |-> "map", items |-> items]

S(str) == [t |-> "str", s |-> str]
N(n) == [t |-> "int", n |-> n]

---------------------------------------------------------------------------
(* _replace_text_placeholders                                              *)

\* the inner loop over text_data.items() for one shape text
RECURSIVE ReplaceKeys(_, _)
ReplaceKeys(text, items) ==
    IF items = <<>> THEN text
    ELSE LET placeholder == Placeholder(Head(items).key)
             replaced == IF Contains(text, placeholder)
                         THEN StrReplace(text, placeholder, Str(Head(items).value))
                         ELSE text
         IN ReplaceKeys(replaced, Tail(items))

\* a write-back that does not look at the text
WritesBackAlways(old, new) == TRUE

\* "if text != shape.text: shape.text = text"
WritesBack(old, new) == new # old

\* one shape of the loop; st is [shapes, next, warn, err, ev]
TextShape(st, i, text_data) ==
    LET shape == st.shapes[i] IN
    IF ~shape.hasText THEN st
    ELSE IF text_data.tag # "map"
    THEN [st EXCEPT !.err = @ + 1]
    ELSE LET text == ReplaceKeys(shape.text, text_data.items) IN
         IF WritesBack(shape.text, text)
         THEN [st EXCEPT !.shapes[i].text = text,
                         !.ev = Append(@, [e |-> "text", obj |-> shape.obj])]
         ELSE st

RECURSIVE TextLoop(_, _, _)
TextLoop(st, i, text_data) ==
    IF i > Len(st.shapes) THEN st
    ELSE TextLoop(TextShape(st, i, text_data), i + 1, text_data)

\* returns [st, raised]
ReplaceTextPlaceholders(st, text_data) ==
    [st |-> TextLoop(st, 1, text_data), raised |-> FALSE]

---------------------------------------------------------------------------
(* _update_tables                                                          *)

Min(a, b) == IF a <= b THEN a ELSE b

\* the element of a one-element set
Only(set) == CHOOSE x \in set : TRUE

\* [shape for shape in slide.shapes if shape.has_table], as positions in slide.shapes
RECURSIVE TableShapes(_, _)
TableShapes(shapes, i) ==
    IF i > Len(shapes) THEN <<>>
    ELSE (IF shapes[i].kind = "TABLE" THEN <<i>> ELSE <<>>) \o TableShapes(shapes, i + 1)

\* "shape.name == table_index": table_index was rebound to int(table_index) on
\* line 142, and a str never equals an int
NameEqualsIndex(name, table_index) == FALSE

\* table_shapes[table_index] once "table_index < len(table_shapes)" passed: a
\* negative index counts from the end, and below -len it is an IndexError (0 here)
IndexTable(table_shapes, table_index) ==
    IF table_index >= 0 THEN table_shapes[table_index + 1]
    ELSE IF table_index >= 0 - Len(table_shapes)
         THEN table_shapes[Len(table_shapes) + table_index + 1]
         ELSE 0

\* the else branch, lines 148-153: the first table shape that matches by name or
\* by identifier; [at |-> position in slide.shapes or 0, failed |-> an exception]
RECURSIVE ScanTables(_, _, _, _)
ScanTables(shapes, table_shapes, table_index, table_data) ==
    IF table_shapes = <<>> THEN [at |-> 0, failed |-> FALSE]
    ELSE LET shape == shapes[Head(table_shapes)]
             hasIdentifier == table_data.identifier.has /\ table_data.identifier.s # <<>>
         IN IF NameEqualsIndex(shape.name, table_index)
            THEN [at |-> Head(table_shapes), failed |-> FALSE]
            ELSE IF ~hasIdentifier
            THEN ScanTables(shapes, Tail(table_shapes), table_index, table_data)
            ELSE IF ~shape.hasText
            THEN [at |-> 0, failed |-> TRUE]
            ELSE IF Contains(shape.text, table_data.identifier.s)
            THEN [at |-> Head(table_shapes), failed |-> FALSE]
            ELSE ScanTables(shapes, Tail(table_shapes), table_index, table_data)

\* a column count that stops one short
FillColsShort(row_data, table) == Min(Len(row_data), Len(table[1]) - 1)

\* "cols = min(len(row_data), len(table.columns))"
FillCols(row_data, table) == Min(Len(row_data), Len(table[1]))

\* "rows = min(len(table_data["data"]), len(table.rows))"
FillRows(data, table) == Min(Len(data), Len(table))

\* lines 160-161 for row r (1-based here), columns c..cols
RECURSIVE FillRow(_, _, _, _, _)
FillRow(st, at, r, c, row_data) ==
    IF c > FillCols(row_data, st.shapes[at].cells) THEN st
    ELSE FillRow([st EXCEPT !.shapes[at].cells[r][c] = Str(row_data[c]),
                            !.ev = Append(@, [e |-> "cell", obj |-> st.shapes[at].obj,
                                              r |-> r - 1, c |-> c - 1])],
                 at, r, c + 1, row_data)

\* lines 156-161, rows r..rows
RECURSIVE FillTable(_, _, _, _)
FillTable(st, at, r, data) ==
    IF r > FillRows(data, st.shapes[at].cells) THEN st
    ELSE FillTable(FillRow(st, at, r, 1, data[r]), at, r + 1, data)

\* history: how the entry's table was chosen ("index", "scan", "none": no table,
\* "error": an exception ended the entry), which one, and whether it was filled
TableEvent(key, how, obj, filled) ==
    [e |-> "table", key |-> key, how |-> how, obj |-> obj, filled |-> filled]

\* lines 155-163 once the table at position at (0: none) has been chosen
FillOrWarn(st, key, how, at, table_data) ==
    IF at # 0 /\ table_data.data.has
    THEN FillTable([st EXCEPT !.ev = Append(@, TableEvent(key, how, st.shapes[at].obj, TRUE))],
                   at, 1, table_data.data.rows)
    ELSE [st EXCEPT !.warn = @ + 1,
                    !.ev = Append(@, IF at = 0 THEN TableEvent(key, "none", 0, FALSE)
                                     ELSE TableEvent(key, how, st.shapes[at].obj, FALSE))]

TableError(st, key) ==
    [st EXCEPT !.err = @ + 1, !.ev = Append(@, TableEvent(key, "error", 0, FALSE))]

\* one iteration of the loop of line 140
TableEntry(st, table_shapes, key, table_data) ==
    IF ~IntParses(key) THEN TableError(st, key)
    ELSE LET table_index == IntValue(key) IN
         IF table_index < Len(table_shapes)
         THEN LET at == IndexTable(table_shapes, table_index) IN
              IF at = 0 THEN TableError(st, key)
              ELSE FillOrWarn(st, key, "index", at, table_data)
         ELSE LET scan == ScanTables(st.shapes, table_shapes, table_index, table_data) IN
              IF scan.failed THEN TableError(st, key)
              ELSE FillOrWarn(st, key, "scan", scan.at, table_data)

RECURSIVE TablesLoop(_, _, _)
TablesLoop(st, table_shapes, items) ==
    IF items = <<>> THEN st
    ELSE TablesLoop(TableEntry(st, table_shapes, Head(items).key, Head(items).value),
                    table_shapes, Tail(items))

\* returns [st, raised]
UpdateTables(st, tables_data) ==
    LET table_shapes == TableShapes(st.shapes, 1) IN
    IF table_shapes = <<>>
    THEN [st |-> [st EXCEPT !.warn = @ + 1], raised |-> FALSE]
    ELSE IF tables_data.tag # "map"
    THEN [st |-> [st EXCEPT !.err = @ + 1], raised |-> TRUE]
    ELSE [st |-> TablesLoop(st, table_shapes, tables_data.items), raised |-> FALSE]

---------------------------------------------------------------------------
(* Binary64 arithmetic, as far as _replace_single_image uses it: the true  *)
(* division of two non-negative integers, the product of an integer and a  *)
(* float, min, and int().  A positive float is [z |-> FALSE, m, e] with m  *)
(* its Precision significand bits, most significant (always 1) first, and  *)
(* value  sum of m[i] * 2^(e - i);  zero is [z |-> TRUE, ...].             *)

Precision == 53

Zeros(n) == [i \in 1..n |-> 0]

FZero == [z |-> TRUE, m |-> Zeros(Precision), e |-> 0]

\* the k with 2^(k-1) <= a / b < 2^k, for a, b > 0
RECURSIVE Exponent(_, _)
Exponent(a, b) ==
    IF a >= 2 * b THEN Exponent(a, 2 * b) + 1
    ELSE IF a < b THEN Exponent(2 * a, b) - 1
    ELSE 1

RECURSIVE Pow2(_)
Pow2(k) == IF k = 0 THEN 1 ELSE 2 * Pow2(k - 1)

\* 2^k for k in 0..7
BitWeight(k) == <<1, 2, 4, 8, 16, 32, 64, 128>>[k + 1]

\* long division of r / b (0 <= r < b) in base 256: the remainders before the
\* first digit and after each of the first n digits
RECURSIVE FracRems(_, _, _)
FracRems(r, b, n) ==
    IF n = 0 THEN <<r>>
    ELSE Only({Append(p, (p[Len(p)] * 256) % b) : p \in {FracRems(r, b, n - 1)}})

\* the j-th bit of r / b after the point, from the remainders
FracBit(rems, b, j) ==
    (((rems[((j - 1) \div 8) + 1] * 256) \div b) \div BitWeight(7 - ((j - 1) % 8))) % 2

\* bits + 1 for a sequence of bits, as [m, carry]
AddOne(bits) ==
    IF \A i \in 1..Len(bits) : bits[i] = 1
    THEN [m |-> Zeros(Len(bits)), carry |-> 1]
    ELSE LET p == CHOOSE i \in 1..Len(bits) :
                      bits[i] = 0 /\ \A j \in (i + 1)..Len(bits) : bits[j] = 1
         IN [m |-> [i \in 1..Len(bits) |-> IF i < p THEN bits[i] ELSE IF i = p THEN 1 ELSE 0],
             carry |-> 0]

\* round to nearest, ties to even: m the leading Precision bits, guard the next
\* bit, sticky whether anything non-zero follows
RoundNearestEven(m, e, guard, sticky) ==
    IF guard = 1 /\ (sticky \/ m[Precision] = 1)
    THEN LET up == AddOne(m) IN
         IF up.carry = 1
         THEN [z |-> FALSE, m |-> [i \in 1..Precision |-> IF i = 1 THEN 1 ELSE 0], e |-> e + 1]
         ELSE [z |-> FALSE, m |-> up.m, e |-> e]
    ELSE [z |-> FALSE, m |-> m, e |-> e]

\* a / b for integers a >= 0, b > 0 (Python's correctly rounded true division)
TrueDiv(a, b) ==
    IF a = 0 THEN FZero
    ELSE LET k == Exponent(a, b)
             num == IF k >= 1 THEN a ELSE a * Pow2(1 - k)
             den == IF k >= 1 THEN b * Pow2(k - 1) ELSE b
             digits == ((Precision - 1) \div 8) + 1
         IN Only({Only({RoundNearestEven(
                            m, k, FracBit(rems, den, Precision),
                            \/ \E j \in (Precision + 1)..(8 * digits) : FracBit(rems, den, j) = 1
                            \/ rems[digits + 1] # 0)
                        : m \in {[i \in 1..Precision |->
                                     IF i = 1 THEN 1 ELSE FracBit(rems, den, i - 1)]}})
                  : rems \in {FracRems(num - den, den, digits)}})

\* the binary digits of n > 0, most significant first (<<>> for 0)
RECURSIVE Binary(_)
Binary(n) == IF n = 0 THEN <<>> ELSE Append(Binary(n \div 2), n % 2)

RECURSIVE BitsValue(_)
BitsValue(bits) ==
    IF bits = <<>> THEN 0
    ELSE 2 * BitsValue(SubSeq(bits, 1, Len(bits) - 1)) + bits[Len(bits)]

\* the t-th base-256 digit (t = 0 the least significant) of the integer whose bits are m
Digit256(m, t) ==
    LET hi == Len(m) - 8 * t
        lo == IF hi - 7 < 1 THEN 1 ELSE hi - 7
    IN BitsValue(SubSeq(m, lo, hi))

\* n * m digit by digit: the carries into digits 0..t
RECURSIVE MulCarries(_, _, _)
MulCarries(m, n, t) ==
    IF t = 0 THEN <<0>>
    ELSE Only({Append(c, (n * Digit256(m, t - 1) + c[Len(c)]) \div 256)
               : c \in {MulCarries(m, n, t - 1)}})

\* the 8 bits of digit t of n * m
MulDigitBits(m, n, carries, t) ==
    [i \in 1..8 |-> (((n * Digit256(m, t) + carries[t + 1]) % 256) \div BitWeight(8 - i)) % 2]

\* digits t, t-1, ..., 0 of n * m as bits
RECURSIVE MulLowBits(_, _, _, _)
MulLowBits(m, n, carries, t) ==
    IF t < 0 THEN <<>>
    ELSE MulDigitBits(m, n, carries, t) \o MulLowBits(m, n, carries, t - 1)

\* the bits of n * (the integer whose bits are m), without leading zeros, n > 0
MulBits(m, n) ==
    LET digits == ((Len(m) - 1) \div 8) + 1 IN
    Only({SubSeq(full,
                 CHOOSE i \in 1..Len(full) : full[i] = 1 /\ \A j \in 1..(i - 1) : full[j] = 0,
                 Len(full))
          : full \in {Binary(carries[digits + 1]) \o MulLowBits(m, n, carries, digits - 1)
                      : carries \in {MulCarries(m, n, digits)}}})

\* n * f for an integer n >= 0 (int * float: n converts exactly, one rounding)
Times(n, f) ==
    IF n = 0 \/ f.z THEN FZero
    ELSE Only({Only({RoundNearestEven(m, f.e + (Len(p) - Precision),
                                      IF Len(p) > Precision THEN p[Precision + 1] ELSE 0,
                                      \E i \in (Precision + 2)..Len(p) : p[i] = 1)
                     : m \in {SubSeq(p, 1, Precision)}})
               : p \in {MulBits(f.m, n)}})

\* int(f) for f >= 0: truncation
Trunc(f) ==
    IF f.z \/ f.e <= 0 THEN 0
    ELSE BitsValue(SubSeq(f.m, 1, Min(f.e, Precision))) * Pow2(f.e - Min(f.e, Precision))

\* f <= g
FLessEq(f, g) ==
    IF f.z THEN TRUE
    ELSE IF g.z THEN FALSE
    ELSE IF f.e # g.e THEN f.e < g.e
    ELSE \/ f.m = g.m
         \/ \E i \in 1..Precision :
               /\ f.m[i] < g.m[i]
               /\ \A j \in 1..(i - 1) : f.m[j] = g.m[j]

\* min(f, g)
FMin(f, g) == IF FLessEq(f, g) THEN f ELSE g

\* int(d / 2) for an integer d: d / 2 is exact, and int() truncates towards zero
HalfTrunc(d) == IF d >= 0 THEN d \div 2 ELSE 0 - ((0 - d) \div 2)

\* lines 229-231
Scale(box_width, box_height, img_width, img_height) ==
    Only({FMin(width_ratio, height_ratio)
          : width_ratio \in {TrueDiv(box_width, img_width)},
            height_ratio \in {TrueDiv(box_height, img_height)}})

\* lines 229-237: [w, h, left, top] of the new picture
ScaledBox(left, top, box_width, box_height, img_width, img_height) ==
    Only({Only({[w |-> new_width, h |-> new_height,
                 left |-> left + HalfTrunc(box_width - new_width),
                 top |-> top + HalfTrunc(box_height - new_height)]
                : new_width \in {Trunc(Times(img_width, scale))},
                  new_height \in {Trunc(Times(img_height, scale))}})
          : scale \in {Scale(box_width, box_height, img_width, img_height)}})

---------------------------------------------------------------------------
(* _replace_single_image and _replace_images                               *)

RemoveAt(seq, i) == SubSeq(seq, 1, i - 1) \o SubSeq(seq, i + 1, Len(seq))

\* positions in slide.shapes of the shapes of one shape_type, in shape order
RECURSIVE ShapesOfType(_, _, _)
ShapesOfType(shapes, kind, i) ==
    IF i > Len(shapes) THEN <<>>
    ELSE (IF shapes[i].kind = kind THEN <<i>> ELSE <<>>) \o ShapesOfType(shapes, kind, i + 1)

\* the shape slide.shapes.add_picture appends to the shape tree
NewPicture(obj, box, by) ==
    [obj |-> obj, kind |-> "PICTURE", name |-> <<"Picture">>, hasAlt |-> FALSE, alt |-> <<>>,
     hasText |-> FALSE, text |-> <<>>, cells |-> <<>>,
     left |-> box.left, top |-> box.top, width |-> box.w, height |-> box.h, by |-> by]

\* lines 226-239 succeed: Image.open decodes the file, neither native dimension
\* is zero (ZeroDivisionError on lines 229-230), and add_picture accepts the file
SwapSucceeds(file) == file.decodes /\ file.w # 0 /\ file.h # 0 /\ file.inserts

\* a swap that checks the file before it detaches the shape
ReplaceSingleImageChecked(st, at, file, k) ==
    IF ~SwapSucceeds(file)
    THEN [st |-> [st EXCEPT !.err = @ + 1], raised |-> TRUE]
    ELSE [st |-> [st EXCEPT !.shapes = Append(RemoveAt(@, at),
                                              NewPicture(st.next,
                                                         [left |-> st.shapes[at].left,
                                                          top |-> st.shapes[at].top,
                                                          w |-> st.shapes[at].width,
                                                          h |-> st.shapes[at].height], k)),
                            !.next = @ + 1],
          raised |-> FALSE]

\* _replace_single_image on the shape at position at, for entry k of the images
\* map; [st, raised].  The shape is detached (lines 223-224) before anything can fail
ReplaceSingleImage(st, at, file, k) ==
    LET shape == st.shapes[at]
        detached == [st EXCEPT !.shapes = RemoveAt(@, at)]
    IN IF ~SwapSucceeds(file)
       THEN [st |-> [detached EXCEPT !.err = @ + 1], raised |-> TRUE]
       ELSE LET box == ScaledBox(shape.left, shape.top, shape.width, shape.height,
                                 file.w, file.h)
            IN [st |-> [detached EXCEPT !.shapes = Append(@, NewPicture(st.next, box, k)),
                                        !.next = @ + 1],
                raised |-> FALSE]

ImageEvent(k, outcome, old, new) ==
    [e |-> "image", k |-> k, outcome |-> outcome, old |-> old, new |-> new]

\* lines 184/190/203 with the handlers of lines 211-213 around them
SwapEntry(st, at, file, k) ==
    Only({IF swap.raised
          THEN [swap.st EXCEPT !.err = @ + 1,
                               !.ev = Append(@, ImageEvent(k, "failed", st.shapes[at].obj, 0))]
          ELSE [swap.st EXCEPT !.ev = Append(@, ImageEvent(k, "replaced", st.shapes[at].obj,
                                                           st.next))]
          : swap \in {ReplaceSingleImage(st, at, file, k)}})

Unresolved(st, k) ==
    [st EXCEPT !.warn = @ + 1, !.ev = Append(@, ImageEvent(k, "unresolved", 0, 0))]

\* lines 180-192: the target of an all-digit reference, as a position in
\* slide.shapes (0: none); both lists are taken from the slide as it is now
IndexTarget(shapes, image_index) ==
    LET images == ShapesOfType(shapes, "PICTURE", 1)
        placeholders == ShapesOfType(shapes, "PLACEHOLDER", 1)
    IN IF image_index < Len(images) THEN images[image_index + 1]
       ELSE IF image_index < Len(placeholders) THEN placeholders[image_index + 1]
       ELSE 0

\* lines 195-205: the first picture or placeholder whose name or alt_text is the reference
NameTarget(shapes, image_name) ==
    LET hits == {i \in 1..Len(shapes) :
                    /\ shapes[i].kind \in {"PICTURE", "PLACEHOLDER"}
                    /\ \/ shapes[i].name = image_name
                       \/ shapes[i].hasAlt /\ shapes[i].alt = image_name}
    IN IF hits = {} THEN 0 ELSE CHOOSE i \in hits : \A j \in hits : i <= j

\* an existence test that always passes
PathExistsAlways(file) == TRUE

\* os.path.exists(image_path)
PathExists(file) == file.exists

\* one iteration of the loop of line 175, for entry k
ImageEntry(st, k, image_name, file) ==
    IF ~PathExists(file)
    THEN [st EXCEPT !.warn = @ + 1, !.ev = Append(@, ImageEvent(k, "missing", 0, 0))]
    ELSE LET at == IF IsDigit(image_name)
                   THEN IndexTarget(st.shapes, IntValue(image_name))
                   ELSE NameTarget(st.shapes, image_name)
         IN IF at = 0 THEN Unresolved(st, k) ELSE SwapEntry(st, at, file, k)

RECURSIVE ImagesLoop(_, _, _, _)
ImagesLoop(st, k, items, fs) ==
    IF k > Len(items) THEN st
    ELSE ImagesLoop(ImageEntry(st, k, items[k].key, fs[items[k].value]), k + 1, items, fs)

\* returns [st, raised]
ReplaceImages(st, images_data, fs) ==
    IF images_data.tag # "map"
    THEN [st |-> [st EXCEPT !.err = @ + 1], raised |-> TRUE]
    ELSE [st |-> ImagesLoop(st, 1, images_data.items, fs), raised |-> FALSE]

---------------------------------------------------------------------------
(* _create_slide_map and apply_data                                        *)

\* titles of the titled slides
Titles(prs) == {prs[i].title : i \in {j \in 1..Len(prs) : prs[j].titled}}

\* title -> position of the last slide with that title
CreateSlideMap(prs) ==
    [t \in Titles(prs) |->
        CHOOSE i \in 1..Len(prs) :
            /\ prs[i].titled /\ prs[i].title = t
            /\ \A j \in 1..Len(prs) : (prs[j].titled /\ prs[j].title = t) => j <= i]

SectionEvent(n, section) == [e |-> "section", n |-> n, section |-> section]
RaiseEvent(n, section) == [e |-> "raise", n |-> n, section |-> section]

\* a resolver is entered for payload entry n
Enter(st, n, section) == [st EXCEPT !.ev = Append(@, SectionEvent(n, section))]

\* the handler of lines 102-104 once a resolver has returned r = [st, raised]
Caught(r, n, section) ==
    IF r.raised
    THEN [r EXCEPT !.st.err = @ + 1, !.st.ev = Append(@, RaiseEvent(n, section))]
    ELSE r

\* one section of lines 91-101: skipped when absent or when an earlier section of
\* the slide raised; r is [st, raised]
RunText(r, n, slide_data) ==
    IF r.raised \/ slide_data.text.tag = "absent" THEN r
    ELSE Only({Caught(x, n, "text") :
               x \in {ReplaceTextPlaceholders(Enter(r.st, n, "text"), slide_data.text)}})

RunTables(r, n, slide_data) ==
    IF r.raised \/ slide_data.tables.tag = "absent" THEN r
    ELSE Only({Caught(x, n, "tables") :
               x \in {UpdateTables(Enter(r.st, n, "tables"), slide_data.tables)}})

RunImages(r, n, slide_data, fs) ==
    IF r.raised \/ slide_data.images.tag = "absent" THEN r
    ELSE Only({Caught(x, n, "images") :
               x \in {ReplaceImages(Enter(r.st, n, "images"), slide_data.images, fs)}})

\* a slide whose sections are each tried on their own
ProcessSlideEachSection(st, n, slide_data, fs) ==
    IF slide_data.tag # "map" THEN [st EXCEPT !.err = @ + 1]
    ELSE Only({RunImages([u EXCEPT !.raised = FALSE], n, slide_data, fs).st :
               u \in {RunTables([t EXCEPT !.raised = FALSE], n, slide_data) :
                      t \in {RunText([st |-> st, raised |-> FALSE], n, slide_data)}}})

\* lines 90-104 for payload entry n on a slide's shapes.  A slide_data that is a
\* number or null makes the test of line 91 a TypeError, caught on line 102
ProcessSlide(st, n, slide_data, fs) ==
    IF slide_data.tag # "map" THEN [st EXCEPT !.err = @ + 1]
    ELSE Only({RunImages(u, n, slide_data, fs).st :
               u \in {RunTables(t, n, slide_data) :
                      t \in {RunText([st |-> st, raised |-> FALSE], n, slide_data)}}})

\* an unknown slide name passed over without a warning
SkipUnknownSlideQuietly ==
    /\ pc = "apply"
    /\ data_dict.tag = "map"
    /\ pos < Len(data_dict.items)
    /\ data_dict.items[pos + 1].key \notin DOMAIN slide_map
    /\ pos' = pos + 1
    /\ UNCHANGED <<template, slides, slide_map, files, data_dict, pc, next, warnings, errors,
                   raised, events>>

\* lines 84-86: the slide name is not in the slide map
SkipUnknownSlide ==
    /\ pc = "apply"
    /\ data_dict.tag = "map"
    /\ pos < Len(data_dict.items)
    /\ data_dict.items[pos + 1].key \notin DOMAIN slide_map
    /\ warnings' = warnings + 1
    /\ pos' = pos + 1
    /\ UNCHANGED <<template, slides, slide_map, files, data_dict, pc, next, errors, raised, events>>

\* lines 88-104: the slide is found and its sections are applied
ApplySlide ==
    /\ pc = "apply"
    /\ data_dict.tag = "map"
    /\ pos < Len(data_dict.items)
    /\ data_dict.items[pos + 1].key \in DOMAIN slide_map
    /\ \E at \in {slide_map[data_dict.items[pos + 1].key]} :
         \E st \in {ProcessSlide([shapes |-> slides[at].shapes, next |-> next,
                                  warn |-> warnings, err |-> errors, ev |-> events],
                                 pos + 1, data_dict.items[pos + 1].value, files)} :
            /\ slides' = [slides EXCEPT ![at].shapes = st.shapes]
            /\ next' = st.next
            /\ warnings' = st.warn
            /\ errors' = st.err
            /\ events' = st.ev
    /\ pos' = pos + 1
    /\ UNCHANGED <<template, slide_map, files, data_dict, pc, raised>>

\* the loop of line 82 is exhausted: apply_data returns
Return ==
    /\ pc = "apply"
    /\ data_dict.tag = "map"
    /\ pos = Len(data_dict.items)
    /\ pc' = "done"
    /\ UNCHANGED <<template, slides, slide_map, files, data_dict, pos, next, warnings, errors, raised, events>>

\* lines 105-107: data_dict.items() fails on a payload that is no mapping, and
\* apply_data raises PowerPointTemplateError
RaiseOnPayload ==
    /\ pc = "apply"
    /\ data_dict.tag # "map"
    /\ errors' = errors + 1
    /\ raised' = TRUE
    /\ pc' = "done"
    /\ UNCHANGED <<template, slides, slide_map, files, data_dict, pos, next, warnings, events>>

---------------------------------------------------------------------------
(* Templates, payloads and file systems the specifications start from      *)

Str1(a) == <<a>>
Box(left, top, width, height) == [left |-> left, top |-> top, width |-> width, height |-> height]
NoBox == Box(0, 0, 0, 0)

TextBox(obj, text) ==
    [obj |-> obj, kind |-> "TEXT", name |-> <<"T">>, hasAlt |-> FALSE, alt |-> <<>>,
     hasText |-> TRUE, text |-> text, cells |-> <<>>,
     left |-> 0, top |-> 0, width |-> 0, height |-> 0, by |-> 0]

TableShape(obj, name, hasText, text, cells) ==
    [obj |-> obj, kind |-> "TABLE", name |-> name, hasAlt |-> FALSE, alt |-> <<>>,
     hasText |-> hasText, text |-> text, cells |-> cells,
     left |-> 0, top |-> 0, width |-> 0, height |-> 0, by |-> 0]

PictureShape(obj, kind, name, box) ==
    [obj |-> obj, kind |-> kind, name |-> name, hasAlt |-> FALSE, alt |-> <<>>,
     hasText |-> (kind = "PLACEHOLDER"), text |-> <<>>, cells |-> <<>>,
     left |-> box.left, top |-> box.top, width |-> box.width, height |-> box.height, by |-> 0]

Slide(title, shapes) == [titled |-> TRUE, title |-> title, shapes |-> shapes]
Untitled(shapes) == [titled |-> FALSE, title |-> "", shapes |-> shapes]

Item(key, value) == [key |-> key, value |-> value]
Directive(text, tables, images) ==
    [tag |-> "map", text |-> text, tables |-> tables, images |-> images]
NumberDirective == [tag |-> "number", text |-> Absent, tables |-> Absent, images |-> Absent]

ImageFile(exists, decodes, inserts, w, h) ==
    [exists |-> exists, decodes |-> decodes, inserts |-> inserts, w |-> w, h |-> h]

\* all sequences without repetition of elements of set
RECURSIVE Orders(_)
Orders(set) ==
    IF set = {} THEN {<<>>}
    ELSE UNION {{<<x>> \o o : o \in Orders(set \ {x})} : x \in set}

\* all sequences of length at most n over set
RECURSIVE SeqsUpTo(_, _)
SeqsUpTo(set, n) ==
    IF n = 0 THEN {<<>>}
    ELSE SeqsUpTo(set, n - 1) \cup {Append(q, x) : q \in SeqsUpTo(set, n - 1), x \in set}

RECURSIVE Concat(_)
Concat(seqs) == IF seqs = <<>> THEN <<>> ELSE Head(seqs) \o Concat(Tail(seqs))

\* the state right after PowerPointTemplate(template_path), before apply_data
Loaded(prs, fs, payload) ==
    /\ template = prs
    /\ slides = prs
    /\ slide_map = CreateSlideMap(prs)
    /\ files = fs
    /\ data_dict = payload
    /\ pos = 0
    /\ pc = "apply"
    /\ next = 100
    /\ warnings = 0
    /\ errors = 0
    /\ raised = FALSE
    /\ events = <<>>

NoFiles == [p \in {} |-> 0]

---------------------------------------------------------------------------
(* Text placeholders on one shape: every text and text map within bounds   *)

MaxPieces == 3

Pieces == {<<"{", "{", "a", "}", "}">>, <<"{", "{", "b", "}", "}">>, <<"{", "{">>,
           <<"b", "}", "}">>, <<"x">>}

Texts == {Concat(q) : q \in SeqsUpTo(Pieces, MaxPieces)}

TextKeys == {<<"a">>, <<"b">>}

TextValues == {S(<<"y">>), S(<<>>), N(7), S(<<"{", "{", "b", "}", "}">>)}

\* the dicts over TextKeys, each in every iteration order
TextMaps ==
    UNION {UNION {{[i \in 1..Len(o) |-> Item(o[i], v[o[i]])] : o \in Orders(ks)}
                  : v \in [ks -> TextValues]}
           : ks \in SUBSET TextKeys}

InitText ==
    \E text \in Texts, items \in TextMaps :
        Loaded(<<Slide("T", <<TextBox(1, text), PictureShape(2, "PICTURE", <<"P">>, NoBox)>>)>>,
               NoFiles,
               Mapping(<<Item("T", Directive(Mapping(items), Absent, Absent))>>))

NextText == ApplySlide \/ Return

SpecText == InitText /\ [][NextText]_vars

---------------------------------------------------------------------------
(* Tables on one slide: every table reference against every table layout   *)

MaxTables == 2
MaxDataRows == 3
MaxDataCols == 3

Cells(rows, cols) == [r \in 1..rows |-> [c \in 1..cols |-> <<"o">>]]

\* a table named "S" whose text holds "i", and a table named "1" without text
TableKinds ==
    {[name |-> <<"S">>, hasText |-> TRUE, text |-> <<"h", "i">>, cells |-> Cells(2, 2)],
     [name |-> <<"1">>, hasText |-> FALSE, text |-> <<>>, cells |-> Cells(1, 3)]}

\* a text box followed by the tables
TableSlide(kinds) ==
    Slide("T", <<TextBox(1, <<"x">>)>> \o
               [i \in 1..Len(kinds) |->
                    TableShape(i + 1, kinds[i].name, kinds[i].hasText, kinds[i].text,
                               kinds[i].cells)])

TableRefs == {<<"0">>, <<"1">>, <<"2">>, <<"-", "1">>, <<"-", "3">>, <<"+", "1">>, <<"S">>}

NoField == [has |-> FALSE, s |-> <<>>, rows |-> <<>>]
Identifier(str) == [has |-> TRUE, s |-> str, rows |-> <<>>]
Data(rows) == [has |-> TRUE, s |-> <<>>, rows |-> rows]

\* a matrix whose first row has first values and whose other rows have rest values
Matrix(n, first, rest) ==
    [r \in 1..n |-> [c \in 1..(IF r = 1 THEN first ELSE rest) |-> N(10 * r + c)]]

Matrices ==
    {Matrix(n, first, rest) : n \in 0..MaxDataRows, first \in 0..MaxDataCols,
                              rest \in 0..MaxDataCols}

TableDirectives ==
    {[identifier |-> id, data |-> d] :
        id \in {NoField, Identifier(<<"i">>)},
        d \in {NoField} \cup {Data(m) : m \in Matrices}}

\* the entry that follows the entry under test, when there is one
FollowingEntry == Item(<<"0">>, [identifier |-> NoField, data |-> Data(<<<<S(<<"z">>)>>>>)])

TableMaps ==
    UNION {{<<Item(ref, d)>>} \cup
           (IF ref = FollowingEntry.key THEN {} ELSE {<<Item(ref, d), FollowingEntry>>})
           : ref \in TableRefs, d \in TableDirectives}

InitTables ==
    \E kinds \in SeqsUpTo(TableKinds, MaxTables), items \in TableMaps :
        Loaded(<<TableSlide(kinds)>>, NoFiles,
               Mapping(<<Item("T", Directive(Absent, Mapping(items), Absent))>>))

NextTables == ApplySlide \/ Return

SpecTables == InitTables /\ [][NextTables]_vars

\* the tables map of SpecTables, in iteration order
TablesItems == data_dict.items[1].value.tables.items

\* positions in events of the events of one kind
EventsOf(kind) == {i \in 1..Len(events) : events[i].e = kind}

\* the event that closes the resolution of the k-th entry of the tables map
TableEventOf(k) ==
    events[CHOOSE i \in EventsOf("table") :
               Cardinality({j \in EventsOf("table") : j <= i}) = k]

\* the cells (table, row, column) assigned while the k-th entry was processed
CellsWritten(k) ==
    {<<events[i].obj, events[i].r, events[i].c>> :
        i \in {j \in EventsOf("cell") :
                  Cardinality({t \in EventsOf("table") : t < j}) = k}}

\* the table shapes of the loaded slide, in shape order
LoadedTables == [i \in 1..Len(TableShapes(template[1].shapes, 1)) |->
                    template[1].shapes[TableShapes(template[1].shapes, 1)[i]]]

LoadedTable(obj) == CHOOSE i \in 1..Len(LoadedTables) : LoadedTables[i].obj = obj

\* the cells C2 allows the k-th entry to write: the supplied matrix clipped to the table
CellsAllowed(k) ==
    LET ev == TableEventOf(k)
        d == TablesItems[k].value.data
    IN IF ev.how \in {"index", "scan"} /\ d.has
       THEN LET cells == LoadedTables[LoadedTable(ev.obj)].cells
            IN {x \in {ev.obj} \X (0..(Len(cells) - 1)) \X (0..(Len(cells[1]) - 1)) :
                   x[2] < Len(d.rows) /\ x[3] < Len(d.rows[x[2] + 1])}
       ELSE {}

\* the text C2 expects in cell (r, c), 0-based, of a table of the slide
CellExpected(shape, r, c) ==
    LET writers == {k \in 1..Cardinality(EventsOf("table")) : <<shape.obj, r, c>> \in CellsAllowed(k)}
    IN IF writers = {} THEN LoadedTables[LoadedTable(shape.obj)].cells[r + 1][c + 1]
       ELSE Str(TablesItems[CHOOSE k \in writers : \A j \in writers : j <= k]
                    .value.data.rows[r + 1][c + 1])

\* C2: an entry whose table was resolved writes exactly the cells of the supplied
\* matrix that lie inside the table, each with the string form of its value; every
\* other cell keeps its text, and oversized data raises nothing
C2_WritesClippedToTable ==
    pc = "done" =>
        /\ \A k \in 1..Cardinality(EventsOf("table")) : CellsWritten(k) = CellsAllowed(k)
        /\ \A i \in 1..Len(slides[1].shapes) :
              slides[1].shapes[i].kind = "TABLE" =>
                 \A r \in 1..Len(slides[1].shapes[i].cells) :
                    \A c \in 1..Len(slides[1].shapes[i].cells[r]) :
                       slides[1].shapes[i].cells[r][c] =
                           CellExpected(slides[1].shapes[i], r - 1, c - 1)
        /\ errors = Cardinality({k \in 1..Cardinality(EventsOf("table")) :
                                    TableEventOf(k).how = "error"})

\* a 3x3 matrix was applied to a 2x2 table and wrote its top-left 2x2
C2_Witness ==
    /\ pc = "done"
    /\ \E k \in 1..Cardinality(EventsOf("table")) :
          /\ TableEventOf(k).filled
          /\ Len(TablesItems[k].value.data.rows) = 3
          /\ \A r \in 1..3 : Len(TablesItems[k].value.data.rows[r]) = 3
          /\ Len(LoadedTables[LoadedTable(TableEventOf(k).obj)].cells) = 2
          /\ CellsWritten(k) = {TableEventOf(k).obj} \X (0..1) \X (0..1)

\* the first loaded table shape matching a reference by name, or by identifier in its text
NameMatches(ref, directive) ==
    {i \in 1..Len(LoadedTables) :
        \/ LoadedTables[i].name = ref
        \/ /\ directive.identifier.has /\ directive.identifier.s # <<>>
           /\ LoadedTables[i].hasText
           /\ Contains(LoadedTables[i].text, directive.identifier.s)}

\* C3: a reference int() cannot parse is looked up by name or identifier: the
\* first matching table shape is selected and filled from the directive's data,
\* and the entry is skipped only when no shape matches
C3_NonNumericFallsBackToName ==
    pc = "done" =>
        \A k \in 1..Cardinality(EventsOf("table")) :
            ~IntParses(TablesItems[k].key) =>
                LET hits == NameMatches(TablesItems[k].key, TablesItems[k].value)
                    ev == TableEventOf(k)
                IN IF hits = {} THEN ev.how = "none"
                   ELSE /\ ev.how = "scan"
                        /\ ev.obj = LoadedTables[CHOOSE i \in hits : \A j \in hits : i <= j].obj
                        /\ ev.filled = TablesItems[k].value.data.has

\* the reference is an integer i with 0 <= i < number of table shapes
InRange(ref) == IntParses(ref) /\ IntValue(ref) >= 0 /\ IntValue(ref) < Len(LoadedTables)

\* C4: a table is selected by position if and only if the reference parses as an
\* integer i with 0 <= i < number of table shapes, and then it is the i-th table
\* shape; an integer outside that range never selects by position
C4_PositionalIffInRange ==
    pc = "done" =>
        \A k \in 1..Cardinality(EventsOf("table")) :
            /\ (TableEventOf(k).how = "index") <=> InRange(TablesItems[k].key)
            /\ InRange(TablesItems[k].key) =>
                  TableEventOf(k).obj = LoadedTables[IntValue(TablesItems[k].key) + 1].obj

---------------------------------------------------------------------------
(* One picture and one image: every box against every native size          *)

BoxSizes == {1, 13, 100, 200}
ImageSizes == {1, 23, 100, 400}
Offsets == {0, 10}

InitGeometry ==
    \E left \in Offsets, top \in Offsets, w \in BoxSizes, h \in BoxSizes,
       iw \in ImageSizes, ih \in ImageSizes :
        Loaded(<<Slide("T", <<PictureShape(1, "PICTURE", <<"A">>, Box(left, top, w, h))>>)>>,
               [p \in {"img.png"} |-> ImageFile(TRUE, TRUE, TRUE, iw, ih)],
               Mapping(<<Item("T", Directive(Absent, Absent,
                                             Mapping(<<Item(<<"0">>, "img.png")>>)))>>))

NextGeometry == ApplySlide \/ Return

SpecGeometry == InitGeometry /\ [][NextGeometry]_vars

\* the replaced picture's box and the picture now on the slide
OldBox == template[1].shapes[1]
NewShape == slides[1].shapes[1]
Img == files["img.png"]

\* the width ratio is the smaller one (or they tie): boxW/imgW <= boxH/imgH
WidthBound == OldBox.width * Img.h <= OldBox.height * Img.w

\* trunc(imgW * s) and trunc(imgH * s) for the rational s = min(boxW/imgW, boxH/imgH)
ExactWidth == IF WidthBound THEN OldBox.width ELSE (Img.w * OldBox.height) \div Img.h
ExactHeight == IF WidthBound THEN (Img.h * OldBox.width) \div Img.w ELSE OldBox.height

\* C5: the new picture has size (trunc(imgW*s), trunc(imgH*s)) for
\* s = min(boxW/imgW, boxH/imgH), is centred in the old box with truncated
\* margins, and lies inside the old box
C5_ScaledToFitAndCentred ==
    pc = "done" =>
        /\ NewShape.by = 1
        /\ NewShape.width = ExactWidth
        /\ NewShape.height = ExactHeight
        /\ NewShape.left = OldBox.left + ((OldBox.width - NewShape.width) \div 2)
        /\ NewShape.top = OldBox.top + ((OldBox.height - NewShape.height) \div 2)
        /\ NewShape.width <= OldBox.width /\ NewShape.height <= OldBox.height
        /\ NewShape.left >= OldBox.left /\ NewShape.top >= OldBox.top
        /\ NewShape.left + NewShape.width <= OldBox.left + OldBox.width
        /\ NewShape.top + NewShape.height <= OldBox.top + OldBox.height

---------------------------------------------------------------------------
(* Images on one slide: every images map against pictures and placeholders *)

MaxPictures == 2
MaxImageEntries == 2

PictureNames == <<"A", "B", "D", "E", "F">>

\* a text box, n pictures named A, B, ... side by side, and ph placeholders named C
ImageSlide(n, ph) ==
    Slide("T", <<TextBox(1, <<"x">>)>> \o
               [i \in 1..n |-> PictureShape(i + 1, "PICTURE", <<PictureNames[i]>>,
                                            Box(300 * i, 0, 200, 100))] \o
               [i \in 1..ph |-> PictureShape(50 + i, "PLACEHOLDER", <<"C">>,
                                             Box(0, 300, 100, 200))])

\* a good image, a path that does not exist, a file Image.open cannot decode, an
\* image with a zero dimension, and an image add_picture refuses
ImageFiles ==
    [p \in {"ok.png", "missing.png", "corrupt.png", "zero.png", "odd.webp"} |->
        CASE p = "ok.png" -> ImageFile(TRUE, TRUE, TRUE, 400, 100)
          [] p = "missing.png" -> ImageFile(FALSE, FALSE, FALSE, 0, 0)
          [] p = "corrupt.png" -> ImageFile(TRUE, FALSE, FALSE, 0, 0)
          [] p = "zero.png" -> ImageFile(TRUE, TRUE, TRUE, 0, 7)
          [] p = "odd.webp" -> ImageFile(TRUE, TRUE, FALSE, 30, 30)]

ImageRefs == {<<"0">>, <<"1">>, <<"A">>, <<"Z">>}

\* the dicts of at most n entries over ImageRefs, in every iteration order
RECURSIVE ImageMaps(_)
ImageMaps(n) ==
    IF n = 0 THEN {<<>>}
    ELSE ImageMaps(n - 1) \cup
         {Append(m, Item(ref, path)) :
             m \in {x \in ImageMaps(n - 1) : Len(x) = n - 1},
             ref \in ImageRefs, path \in DOMAIN ImageFiles}

DistinctKeys(items) == \A i, j \in 1..Len(items) : items[i].key = items[j].key => i = j

InitImages ==
    \E n \in 0..MaxPictures, ph \in 0..1,
       items \in {m \in ImageMaps(MaxImageEntries) : DistinctKeys(m)} :
        Loaded(<<ImageSlide(n, ph)>>, ImageFiles,
               Mapping(<<Item("T", Directive(Absent, Absent, Mapping(items)))>>))

NextImages == ApplySlide \/ Return

SpecImages == InitImages /\ [][NextImages]_vars

\* the images map of SpecImages, in iteration order
ImagesItems == data_dict.items[1].value.images.items

\* the event that closes the k-th entry of the images map
ImageEventOf(k) ==
    events[CHOOSE i \in EventsOf("image") : events[i].k = k]

\* shapes without the mark of the entry that inserted them
Unmarked(shapes) == [i \in 1..Len(shapes) |-> [shapes[i] EXCEPT !.by = 0]]

\* what the entries did, without their position in the map
Outcomes(evs) ==
    [i \in 1..Len(evs) |-> [outcome |-> evs[i].outcome, old |-> evs[i].old, new |-> evs[i].new]]

HasFile(item) == files[item.value].exists
IsImageEvent(ev) == ev.e = "image"
NotMissing(ev) == ev.e = "image" /\ ev.outcome # "missing"

\* the images section run on the loaded slide with the entries whose file is missing left out
WithoutMissing ==
    ImagesLoop([shapes |-> template[1].shapes, next |-> 100, warn |-> 0, err |-> 0, ev |-> <<>>],
               1, SelectSeq(ImagesItems, HasFile), files)

\* C6: an entry whose file does not exist removes and inserts nothing, the other
\* entries of the map do exactly what they do without it, and nothing is raised
C6_MissingFileSkipsOnlyItsEntry ==
    pc = "done" =>
        /\ ~raised
        /\ EventsOf("raise") = {}
        /\ \A k \in 1..Len(ImagesItems) :
              ~HasFile(ImagesItems[k]) =>
                  ImageEventOf(k) = ImageEvent(k, "missing", 0, 0)
        /\ Unmarked(slides[1].shapes) = Unmarked(WithoutMissing.shapes)
        /\ Outcomes(SelectSeq(events, NotMissing)) = Outcomes(SelectSeq(WithoutMissing.ev, IsImageEvent))

\* an entry with a missing file was skipped and a later entry replaced a picture
C6_Witness ==
    /\ pc = "done"
    /\ \E k \in 1..Len(ImagesItems) :
          /\ ~HasFile(ImagesItems[k])
          /\ \E j \in (k + 1)..Len(ImagesItems) : ImageEventOf(j).outcome = "replaced"

ShapeObjs(shapes) == {shapes[i].obj : i \in 1..Len(shapes)}

\* C9: a swap that fails after the shape was detached leaves neither the shape
\* nor a replacement, ends only its own entry, and raises nothing: every entry of
\* the map is still processed
C9_FailedSwapLeavesEmptySlot ==
    pc = "done" =>
        /\ ~raised
        /\ EventsOf("raise") = {}
        /\ Cardinality(EventsOf("image")) = Len(ImagesItems)
        /\ \A k \in 1..Len(ImagesItems) :
              ImageEventOf(k).outcome = "failed" =>
                  /\ ImageEventOf(k).old # 0
                  /\ ImageEventOf(k).old \notin ShapeObjs(slides[1].shapes)
                  /\ \A i \in 1..Len(slides[1].shapes) : slides[1].shapes[i].by # k

\* a swap failed and the next entry still replaced a picture
C9_Witness ==
    /\ pc = "done"
    /\ \E k \in 1..Len(ImagesItems) :
          /\ ImageEventOf(k).outcome = "failed"
          /\ \E j \in (k + 1)..Len(ImagesItems) : ImageEventOf(j).outcome = "replaced"

\* the pictures of the slide before the section was applied, in shape order
LoadedPictures ==
    [i \in 1..Len(ShapesOfType(template[1].shapes, "PICTURE", 1)) |->
        template[1].shapes[ShapesOfType(template[1].shapes, "PICTURE", 1)[i]]]

\* C10: an all-digit reference i (with an existing file) targets the i-th picture
\* the slide had before the section was applied, and no entry removes a picture
\* that an earlier entry of the section inserted
C10_IndexCountsLoadedPictures ==
    pc = "done" =>
        \A k \in 1..Len(ImagesItems) :
            /\ ImageEventOf(k).old # 0 => ImageEventOf(k).old \in ShapeObjs(template[1].shapes)
            /\ (/\ IsDigit(ImagesItems[k].key)
                /\ HasFile(ImagesItems[k])
                /\ IntValue(ImagesItems[k].key) < Len(LoadedPictures))
               => ImageEventOf(k).old = LoadedPictures[IntValue(ImagesItems[k].key) + 1].obj

\* the text shape of SpecText, as loaded and as it is now
LoadedText == template[1].shapes[1].text
ShapeText == slides[1].shapes[1].text

\* the text map of SpecText, in the order it is iterated
TextItems == data_dict.items[1].value.text.items

\* the same dict in every iteration order
Reorderings(items) ==
    {[i \in 1..Len(items) |-> items[o[i]]] : o \in Orders(1..Len(items))}

\* number of times shape.text was assigned
TextWrites == Cardinality({i \in 1..Len(events) : events[i].e = "text"})

IsBrace(ch) == ch \in {"{", "}"}

BraceFree(str) == \A i \in 1..Len(str) : ~IsBrace(str[i])

\* every brace of the text belongs to a token {{k}} with a brace-free k
RECURSIVE OnlyTokenBraces(_)
OnlyTokenBraces(text) ==
    IF text = <<>> THEN TRUE
    ELSE IF ~IsBrace(Head(text)) THEN OnlyTokenBraces(Tail(text))
    ELSE /\ StartsWith(text, <<"{", "{">>)
         /\ \E j \in 3..(Len(text) - 1) :
               /\ BraceFree(SubSeq(text, 3, j - 1))
               /\ text[j] = "}" /\ text[j + 1] = "}"
               /\ OnlyTokenBraces(SubSeq(text, j + 2, Len(text)))

\* keys and substituted values carry no brace, and the text's braces are tokens
PlainTokens ==
    /\ OnlyTokenBraces(LoadedText)
    /\ \A i \in 1..Len(TextItems) :
          BraceFree(TextItems[i].key) /\ BraceFree(Str(TextItems[i].value))

OrderImmaterial ==
    \A o \in Reorderings(TextItems) : ReplaceKeys(LoadedText, o) = ShapeText

WrittenIffChanged == TextWrites = (IF ShapeText # LoadedText THEN 1 ELSE 0)

\* C8 as stated: whatever the text and the map (a value may hold a token of
\* another entry), the text left in the shape is the same for every iteration
\* order of the map, and the shape is written only if its text changed
C8_AnyOrderSameText == pc = "done" => (OrderImmaterial /\ WrittenIffChanged)

\* C8 amended: when keys and values hold no brace and every brace of the shape
\* text belongs to a {{key}} token, the text left in the shape is the same for
\* every iteration order of the map; in every case the shape is written exactly
\* when its final text differs from the original
C8_PlainTokensAnyOrder ==
    pc = "done" => (WrittenIffChanged /\ (PlainTokens => OrderImmaterial))

\* two keyed tokens in one text, both replaced, under the amended precondition
C8_Witness ==
    /\ pc = "done"
    /\ PlainTokens
    /\ Len(TextItems) = 2
    /\ \A i \in 1..2 : Contains(LoadedText, Placeholder(TextItems[i].key))
    /\ ShapeText # LoadedText
    /\ TextWrites = 1


---------------------------------------------------------------------------
(* apply_data on a template of several slides: every payload within bounds *)

MaxEntries == 2

Token == <<"{", "{", "a", "}", "}">>

\* two slides titled "A" (the later one is the one the slide map keeps), a slide
\* without title, and a slide "B" that has no table
Deck ==
    <<Slide("A", <<TextBox(1, Token)>>),
      Untitled(<<TextBox(2, Token)>>),
      Slide("B", <<TextBox(3, Token \o <<" ">> \o Token),
                   PictureShape(4, "PICTURE", <<"P">>, Box(0, 0, 100, 200))>>),
      Slide("A", <<TextBox(5, Token),
                   TableShape(6, <<"S">>, FALSE, <<>>, Cells(1, 1)),
                   PictureShape(7, "PICTURE", <<"P">>, Box(10, 10, 200, 100))>>)>>

SlideNames == {"A", "B", "Z"}

TextMap == Mapping(<<Item(<<"a">>, S(<<"y">>))>>)
TablesMap ==
    Mapping(<<Item(<<"0">>, [identifier |-> NoField, data |-> Data(<<<<S(<<"v">>)>>>>)])>>)
ImagesMap == Mapping(<<Item(<<"0">>, "ok.png")>>)

\* each section absent, a mapping with one entry, or a value that is no mapping;
\* an images mapping comes alone, after sections that return, or after a tables
\* section that is no mapping
Directives ==
    {Directive(text, tables, images) :
        text \in {Absent, TextMap}, tables \in {Absent, Scalar, TablesMap},
        images \in {Absent, Scalar}}
    \cup {Directive(Absent, Absent, ImagesMap), Directive(TextMap, TablesMap, ImagesMap),
          Directive(TextMap, Scalar, ImagesMap)}
    \cup {NumberDirective, Directive(Scalar, Absent, Absent)}

\* the dicts of at most n entries over SlideNames, in every iteration order
RECURSIVE Payloads(_)
Payloads(n) ==
    IF n = 0 THEN {<<>>}
    ELSE Payloads(n - 1) \cup
         {Append(m, Item(name, d)) :
             m \in {x \in Payloads(n - 1) : Len(x) = n - 1},
             name \in SlideNames, d \in Directives}

Init ==
    \E payload \in {Scalar} \cup {Mapping(m) : m \in {x \in Payloads(MaxEntries) : DistinctKeys(x)}} :
        Loaded(Deck, ImageFiles, payload)

Next == SkipUnknownSlide \/ ApplySlide \/ Return \/ RaiseOnPayload

Spec == Init /\ [][Next]_vars

\* the section of payload entry n whose resolver raised, or "none"
RaisedSection(n) ==
    IF \E i \in EventsOf("raise") : events[i].n = n
    THEN events[CHOOSE i \in EventsOf("raise") : events[i].n = n].section
    ELSE "none"

\* the sections a directive holds, in the order apply_data looks at them
Present(d) ==
    SelectSeq(<<"text", "tables", "images">>,
              LAMBDA x : \/ x = "text" /\ d.text.tag # "absent"
                         \/ x = "tables" /\ d.tables.tag # "absent"
                         \/ x = "images" /\ d.images.tag # "absent")

\* shapes as one resolver leaves them, whether it returns or raises
After(section, shapes, d) ==
    LET st == [shapes |-> shapes, next |-> 0, warn |-> 0, err |-> 0, ev |-> <<>>] IN
    CASE section = "text" -> ReplaceTextPlaceholders(st, d.text).st.shapes
      [] section = "tables" -> UpdateTables(st, d.tables).st.shapes
      [] section = "images" -> ReplaceImages(st, d.images, files).st.shapes

\* shapes after the first sections of secs, up to and including section last
RECURSIVE AfterUpTo(_, _, _, _)
AfterUpTo(secs, last, shapes, d) ==
    IF secs = <<>> THEN shapes
    ELSE IF Head(secs) = last THEN After(Head(secs), shapes, d)
    ELSE AfterUpTo(Tail(secs), last, After(Head(secs), shapes, d), d)

\* shapes without the identity of the pictures inserted
Anonymous(shapes) ==
    [i \in 1..Len(shapes) |-> IF shapes[i].by # 0 THEN [shapes[i] EXCEPT !.obj = 0] ELSE shapes[i]]

\* the section events, in the order the sections were entered
SectionsEntered == SelectSeq(events, LAMBDA ev : ev.e = "section")

Known(n) == data_dict.items[n].key \in DOMAIN slide_map

\* C1: when a resolver raises on payload entry n, no later section of that entry
\* is entered, the slide keeps what the sections up to the raising one wrote,
\* every later entry is processed in payload order, and apply_data returns
\* without raising
C1_RaiseAbortsOnlyItsSlide ==
    (pc = "done" /\ data_dict.tag = "map") =>
        /\ ~raised
        /\ pos = Len(data_dict.items)
        /\ \A i \in EventsOf("raise") :
              i < Len(events) =>
                  events[i + 1].e = "section" /\ events[i + 1].n > events[i].n
        /\ \A i, j \in 1..Len(SectionsEntered) :
              i < j => SectionsEntered[i].n <= SectionsEntered[j].n
        /\ \A n \in 1..Len(data_dict.items) :
              LET d == data_dict.items[n].value IN
              (Known(n) /\ d.tag = "map") =>
                  /\ Present(d) # <<>> =>
                        \E i \in EventsOf("section") :
                            events[i].n = n /\ events[i].section = Head(Present(d))
                  /\ Anonymous(slides[slide_map[data_dict.items[n].key]].shapes)
                        = Anonymous(AfterUpTo(Present(d), RaisedSection(n),
                                              template[slide_map[data_dict.items[n].key]].shapes,
                                              d))

\* the tables resolver raised on the first entry after the text resolver had
\* written to the slide, the images section of that entry was left out, and the
\* second entry was processed
C1_Witness ==
    /\ pc = "done"
    /\ data_dict.tag = "map"
    /\ Len(data_dict.items) = 2
    /\ RaisedSection(1) = "tables"
    /\ data_dict.items[1].value.images.tag = "map"
    /\ slides[4].shapes[1].text = <<"y">>
    /\ Len(slides[4].shapes) = 3 /\ slides[4].shapes[3].obj = 7
    /\ \E i \in EventsOf("section") : events[i].n = 2

\* every section of the directive is absent or a mapping whose entries find their
\* target on the slide
Resolves(d, shapes) ==
    /\ d.tag = "map"
    /\ d.text.tag \in {"absent", "map"}
    /\ d.tables.tag \in {"absent", "map"}
    /\ d.images.tag \in {"absent", "map"}
    /\ d.tables.tag = "map" =>
          \A k \in 1..Len(d.tables.items) :
              /\ IsDigit(d.tables.items[k].key)
              /\ IntValue(d.tables.items[k].key) < Len(TableShapes(shapes, 1))
              /\ d.tables.items[k].value.data.has
    /\ d.images.tag = "map" =>
          /\ Len(d.images.items) <= 1
          /\ \A k \in 1..Len(d.images.items) :
              /\ IsDigit(d.images.items[k].key)
              /\ IntValue(d.images.items[k].key) < Len(ShapesOfType(shapes, "PICTURE", 1))
              /\ files[d.images.items[k].value].exists
              /\ SwapSucceeds(files[d.images.items[k].value])

\* the payload has two entries: entry u with an unknown title and entry v with a
\* title of the template and a directive that resolves
UnknownAndValid(u, v) ==
    /\ data_dict.tag = "map"
    /\ Len(data_dict.items) = 2
    /\ {u, v} = {1, 2}
    /\ ~Known(u)
    /\ Known(v)
    /\ Resolves(data_dict.items[v].value, template[slide_map[data_dict.items[v].key]].shapes)

\* C7: with one unknown and one valid slide title, in either order, exactly one
\* warning is logged, nothing is raised, every slide but the valid one is as
\* loaded, and the valid slide is as its directive alone leaves it
C7_UnknownTitleIsNoOp ==
    pc = "done" =>
        \A u, v \in 1..2 :
            UnknownAndValid(u, v) =>
                LET at == slide_map[data_dict.items[v].key]
                    d == data_dict.items[v].value IN
                /\ warnings = 1
                /\ errors = 0
                /\ ~raised
                /\ \A i \in 1..Len(slides) : i # at => slides[i] = template[i]
                /\ Anonymous(slides[at].shapes)
                      = Anonymous(AfterUpTo(Present(d), "none", template[at].shapes, d))

\* the unknown title came first and the valid entry then changed its slide
C7_Witness ==
    /\ pc = "done"
    /\ UnknownAndValid(1, 2)
    /\ slides[4] # template[4]
    /\ data_dict.items[2].value.images.tag = "map"
    /\ data_dict.items[2].value.tables.tag = "map"

=============================================================================
